---- MODULE Spec2Model ----
(***************************************************************************)
(* Title-matching pipeline of the movie journal: ImdbTidMapper (linker.py) *)
(* with the catalog loader (parsers/imdb.py), the journal numbering        *)
(* (parsers/log.py) and the value objects (models.py).                     *)
(*                                                                         *)
(* Representation of Python values:                                        *)
(*   Optional[T]   None is <<>>, a present value v is <<v>>                *)
(*   title         a tuple of one-character strings (lower() acts on it)   *)
(*   year          a tuple of digits (sorted() compares it)                *)
(*   other str     a TLA+ string                                           *)
(*   dict          a tuple of <<key, value>> pairs in insertion order      *)
(*   list          a tuple                                                 *)
(*   text          (journal lines) a tuple of characters, a character      *)
(*                 outside ASCII written by its code point ("U+00E2"); an    *)
(*                 identifier read from such a text is a tuple of characters *)
(*   icon          the three icon strings of parsers/log.py are the names    *)
(*                 "star", "check", "bomb"                                   *)
(***************************************************************************)
EXTENDS Integers, Sequences, FiniteSets, TLC

\* ------------------------------------------------------------- bounds
MaxRows == 2        \* rows of the reference CSV
MaxEntries == 2     \* segments of the journal file
MaxLines == 3       \* lines of a journal text

\* ------------------------------------------------------------- values
None == <<>>
Some(v) == <<v>>
IsNone(o) == o = <<>>
Val(o) == o[1]

\* The mapper objects: the one of the dashboard process (get_default_mapper) and
\* the one of a second process on the same files.
Mappers == {"m1", "m2"}
DefaultMapper == "m1"

\* Rows of the reference CSV (columns tconst, title, year, directors, composers).
RowUp ==
  [tconst |-> "tt1", title |-> <<"U", "p">>, year |-> <<2, 0, 0, 9>>,
   directors |-> "Pete Docter", composers |-> "Michael Giacchino"]
RowUP ==
  [tconst |-> "tt2", title |-> <<"U", "P">>, year |-> <<2, 0, 0, 9>>,
   directors |-> "Ann Hui", composers |-> ""]
RowIt ==
  [tconst |-> "tt1", title |-> <<"I", "t">>, year |-> <<>>,
   directors |-> "", composers |-> ""]
Rows == {RowUp, RowUP, RowIt}

\* Segments of the journal file: what a segment's text parses to.
SegUP == [title |-> <<"U", "P">>, mark |-> Some("star"), year |-> Some(<<2, 0, 0, 9>>), tid |-> None]
SegUp2 == [title |-> <<"U", "p">>, mark |-> None, year |-> Some(<<2, 0, 0, 9>>), tid |-> Some("tt2")]
SegIt == [title |-> <<"I", "t">>, mark |-> None, year |-> None, tid |-> None]
Segments == {SegUP, SegUp2, SegIt}

\* The tuples of at most n distinct elements of S.
SeqsUpTo(S, n) ==
  UNION {{s \in [1..k -> S] : \A i, j \in 1..k : s[i] = s[j] => i = j} : k \in 0..n}

CsvFiles == SeqsUpTo(Rows, MaxRows)

\* Journal files: non-empty lines of " :: "-separated segments; the segments are
\* either all on one line or one per line.
JournalFiles ==
  UNION {{<<segs>>, [i \in DOMAIN segs |-> <<segs[i]>>]} :
           segs \in SeqsUpTo(Segments, MaxEntries) \ {<<>>}} \cup {<<>>}

\* ------------------------------------------------------------- models.py
\* ImdbEntry(tid, title, year, director, composer)
ImdbEntry(tid, title, year, director, composer) ==
  [tid |-> tid, title |-> title, year |-> year, director |-> director,
   composer |-> composer]

\* JournalEntry(position, subnum, title, mark, year, _tid, backfill, imdb=None)
JournalEntry(position, subnum, title, mark, year, tid, backfill, imdb) ==
  [position |-> position, subnum |-> subnum, title |-> title, mark |-> mark,
   year |-> year, _tid |-> tid, backfill |-> backfill, imdb |-> imdb]

\* Truth value of a str: the empty string is false.
Truthy(s) == s # ""

\* (mutant) the tid property without its fallback to _tid
TidOfImdbOnly(j) ==
  IF ~IsNone(j.imdb) /\ Truthy(Val(j.imdb).tid) THEN Some(Val(j.imdb).tid)
  ELSE None
\* JournalEntry.tid: the attached record's tid when a record is attached and its
\* tid is non-empty, else _tid.
Tid(j) ==
  IF ~IsNone(j.imdb) /\ Truthy(Val(j.imdb).tid) THEN Some(Val(j.imdb).tid)
  ELSE j._tid

\* bool as Python prints it
PyBool(b) == IF b THEN "True" ELSE "False"
\* isinstance(v, JournalEntry), for v a JournalEntry or an ImdbEntry
IsJournalEntry(v) == "position" \in DOMAIN v
\* JournalEntry.__eq__(self, other): the class NotImplementedError (not raised)
\* for another type, else whether position, self.subnum == self.subnum and title
\* all hold.
JournalEntryEq(self, other) ==
  IF ~IsJournalEntry(other) THEN "NotImplementedError"
  ELSE PyBool(/\ self.position = other.position
              /\ self.subnum = self.subnum
              /\ self.title = other.title)
\* JournalEntry.__hash__: hash of the tuple (position, subnum, title); the hash of
\* a tuple stands for itself, two tuples that differ have different hashes.
JournalEntryHash(self) == <<self.position, self.subnum, self.title>>

\* ------------------------------------------------------------- str
\* str.lower() on the letters the titles use.
LowerChar(c) ==
  CASE c = "U" -> "u"
    [] c = "P" -> "p"
    [] c = "I" -> "i"
    [] c = "T" -> "t"
    [] OTHER -> c
Lower(s) == [i \in DOMAIN s |-> LowerChar(s[i])]

\* a < b for two strings of digits (lexicographic, a proper prefix is smaller).
RECURSIVE StrLess(_, _)
StrLess(a, b) ==
  IF b = <<>> THEN FALSE
  ELSE IF a = <<>> THEN TRUE
  ELSE IF Head(a) # Head(b) THEN Head(a) < Head(b)
  ELSE StrLess(Tail(a), Tail(b))

\* ------------------------------------------------------------- str, re
\* \s of re and the whitespace of str.strip()
IsSpace(c) == c \in {" ", "\t"}
IsDigit(c) == c \in {"0", "1", "2", "3", "4", "5", "6", "7", "8", "9"}
DigitOf(c) ==
  CASE c = "0" -> 0 [] c = "1" -> 1 [] c = "2" -> 2 [] c = "3" -> 3 [] c = "4" -> 4
    [] c = "5" -> 5 [] c = "6" -> 6 [] c = "7" -> 7 [] c = "8" -> 8 [] c = "9" -> 9
    [] OTHER -> c
\* s[i:] of Python with i counted from 1
From(s, i) == SubSeq(s, i, Len(s))
\* the smallest element of a non-empty set of integers
Min(S) == CHOOSE x \in S : \A y \in S : x <= y
\* the first index at which p occurs in s, 0 when it does not (p in s, s.find(p))
Find(s, p) ==
  LET at == {i \in 1..(Len(s) - Len(p) + 1) : SubSeq(s, i, i + Len(p) - 1) = p}
  IN IF at = {} THEN 0 ELSE Min(at)
\* s.replace(old, new): the occurrences of old from the left, none overlapping
RECURSIVE Replace(_, _, _)
Replace(s, old, new) ==
  LET i == Find(s, old)
  IN IF i = 0 THEN s
     ELSE SubSeq(s, 1, i - 1) \o new \o Replace(From(s, i + Len(old)), old, new)
\* s.lstrip(), s.rstrip(), s.strip()
LStrip(s) ==
  LET kept == {i \in DOMAIN s : ~IsSpace(s[i])}
  IN IF kept = {} THEN <<>> ELSE From(s, Min(kept))
RStrip(s) ==
  LET kept == {i \in DOMAIN s : ~IsSpace(s[i])}
  IN IF kept = {} THEN <<>>
     ELSE SubSeq(s, 1, CHOOSE x \in kept : \A y \in kept : y <= x)
Strip(s) == RStrip(LStrip(s))
\* re.sub(r'\s+', ' ', s): of every run of whitespace its first character stays,
\* as a blank.
CollapseSpaces(s) ==
  LET kept == {i \in DOMAIN s : ~IsSpace(s[i]) \/ i = 1 \/ ~IsSpace(s[i - 1])}
      Nth(k) == CHOOSE i \in kept : Cardinality({j \in kept : j <= i}) = k
  IN [k \in 1..Cardinality(kept) |-> IF IsSpace(s[Nth(k)]) THEN " " ELSE s[Nth(k)]]
\* re.search of open + '(.*?)\]' in s, open a literal: <<i, j>>, the index of the
\* first occurrence of open and of the first "]" after it, <<0, 0>> for no match.
SearchBracket(s, open) ==
  LET i == Find(s, open)
      close == IF i = 0 THEN 0 ELSE Find(From(s, i + Len(open)), <<"]">>)
  IN IF i = 0 \/ close = 0 THEN <<0, 0>> ELSE <<i, i + Len(open) + close - 1>>
\* re.sub(open + '(.*?)\]', '', s): every match removed, from the left
RECURSIVE RemoveBrackets(_, _)
RemoveBrackets(s, open) ==
  LET m == SearchBracket(s, open)
  IN IF m = <<0, 0>> THEN s
     ELSE SubSeq(s, 1, m[1] - 1) \o RemoveBrackets(From(s, m[2] + 1), open)

\* ------------------------------------------------------------- dict
RECURSIVE DictIndex(_, _)
\* position of key k in d, 0 when absent
DictIndex(d, k) ==
  IF d = <<>> THEN 0
  ELSE IF d[Len(d)][1] = k THEN Len(d)
  ELSE DictIndex(SubSeq(d, 1, Len(d) - 1), k)
HasKey(d, k) == DictIndex(d, k) # 0
\* d.get(k): None when absent
DictGet(d, k) == IF HasKey(d, k) THEN Some(d[DictIndex(d, k)][2]) ELSE None
\* d[k] = v: replaces the value of an existing key in place, else appends
DictPut(d, k, v) ==
  IF HasKey(d, k) THEN [d EXCEPT ![DictIndex(d, k)] = <<k, v>>]
  ELSE Append(d, <<k, v>>)
Keys(d) == {d[i][1] : i \in DOMAIN d}
\* (mutant) d[k] on a defaultdict(list): a missing key is added with an empty list
DictAfterSubscript(d, k) == IF HasKey(d, k) THEN d ELSE Append(d, <<k, <<>>>>)
\* The dict d after d.get(k): get never calls the default factory.
DictAfterGet(d, k) == d

\* ------------------------------------------------------------- parsers/imdb.py
\* sorted(movies, key=lambda m: m.year): stable, ascending by the year string.
RECURSIVE InsertByYear(_, _)
InsertByYear(sorted, m) ==
  IF sorted = <<>> THEN <<m>>
  ELSE IF StrLess(m.year, sorted[Len(sorted)].year)
       THEN Append(InsertByYear(SubSeq(sorted, 1, Len(sorted) - 1), m),
                   sorted[Len(sorted)])
       ELSE Append(sorted, m)
RECURSIVE SortedByYear(_)
SortedByYear(movies) ==
  IF movies = <<>> THEN <<>>
  ELSE InsertByYear(SortedByYear(SubSeq(movies, 1, Len(movies) - 1)),
                    movies[Len(movies)])

\* parse_imdb_movies on the rows of an opened CSV.
ParseImdbMovies(rows) ==
  SortedByYear([i \in DOMAIN rows |->
    ImdbEntry(rows[i].tconst, rows[i].title, rows[i].year,
              rows[i].directors, rows[i].composers)])

\* ------------------------------------------------------------- parsers/log.py
\* The string literals of lines 9 and 16 (three characters), of line 57 (three
\* characters) and the characters of the class of line 52, as the file has them.
CheckLiteral == <<"U+00E2", "U+0153", "U+201C">>
QuoteLiteral == <<"U+00E2", "U+20AC", "U+2122">>
QuoteClass == {"U+00E2", "U+20AC", "U+2122", "'"}
\* parse_and_remove_mark: the icon and the line without the mark.
ParseAndRemoveMark(line) ==
  LET icon == IF Find(line, <<"*">>) # 0 THEN Some("star")
              ELSE IF Find(line, CheckLiteral) # 0 THEN Some("check")
              ELSE IF Find(line, <<"(", "b", "o", "m", "b", ")">>) # 0 THEN Some("bomb")
              ELSE None
      l1 == Replace(line, <<"(", "b", "o", "m", "b", ")">>, <<" ">>)
      l2 == Replace(l1, <<" ", "*">>, <<" ">>)
      l3 == Replace(l2, CheckLiteral, <<" ">>)
  IN [icon |-> icon, line |-> Strip(CollapseSpaces(l3))]
\* parse_and_remove_tid: [tt...] found and removed.
ParseAndRemoveTid(line) ==
  LET m == SearchBracket(line, <<"[", "t", "t">>)
  IN IF m # <<0, 0>>
     THEN [tid |-> Some(SubSeq(line, m[1] + 1, m[2] - 1)),
           line |-> Strip(CollapseSpaces(RemoveBrackets(line, <<"[", "t", "t">>)))]
     ELSE [tid |-> None, line |-> line]
\* parse_and_remove_backfill: [bf:...] found and removed; the line is not stripped.
ParseAndRemoveBackfill(line) ==
  LET m == SearchBracket(line, <<"[", "b", "f", ":">>)
  IN IF m # <<0, 0>>
     THEN [backfill |-> Some(Strip(SubSeq(line, m[1] + 4, m[2] - 1))),
           line |-> RemoveBrackets(line, <<"[", "b", "f", ":">>)]
     ELSE [backfill |-> None, line |-> line]
\* The number of digits s starts with.
LeadingDigits(s) ==
  LET others == {i \in DOMAIN s : ~IsDigit(s[i])}
  IN IF others = {} THEN Len(s) ELSE Min(others) - 1
\* Group 2 of the pattern of parse_single_entry when the whole of t matches its
\* optional part, \s*\(\s*([QuoteClass]?\d{2,4})\s*\), else None.
YearGroup(t) ==
  LET t1 == LStrip(t)
      t2 == IF t1 # <<>> /\ Head(t1) = "(" THEN LStrip(Tail(t1)) ELSE <<>>
      q == IF t2 # <<>> /\ Head(t2) \in QuoteClass THEN 1 ELSE 0
      n == LeadingDigits(From(t2, q + 1))
  IN IF /\ t1 # <<>> /\ Head(t1) = "("
        /\ n >= 2 /\ n <= 4
        /\ LStrip(From(t2, q + n + 1)) = <<")">>
     THEN Some(SubSeq(t2, 1, q + n))
     ELSE None
\* raw_year.lstrip("'")
LStripQuote(s) ==
  LET kept == {i \in DOMAIN s : s[i] # "'"}
  IN IF kept = {} THEN <<>> ELSE From(s, Min(kept))
\* The match of ^(.*?)(?:...)?$ on a line: the lazy group 1 ends at the first
\* index from which the rest is the year part; without such an index it is the
\* whole line (the pattern matches every line, the else branch is never taken).
TitleAndYear(line) ==
  LET starts == {i \in 1..Len(line) : ~IsNone(YearGroup(From(line, i)))}
  IN IF starts = {}
     THEN [title |-> Strip(line), year |-> None]
     ELSE LET i == Min(starts)
              raw_year == Strip(Replace(Val(YearGroup(From(line, i))),
                                        QuoteLiteral, <<"'">>))
              digits == LStripQuote(raw_year)
          IN [title |-> Strip(SubSeq(line, 1, i - 1)),
              year |-> IF raw_year = <<>> THEN None
                       ELSE Some([k \in DOMAIN digits |-> DigitOf(digits[k])])]
\* parse_single_entry up to its last line: the fields read from a segment's text,
\* in the order in which lines 48 to 61 compute them.
SegmentFields(text) ==
  LET mk == ParseAndRemoveMark(text)
      td == ParseAndRemoveTid(mk.line)
      bf == ParseAndRemoveBackfill(td.line)
      ty == TitleAndYear(bf.line)
  IN [mark |-> mk.icon, tid |-> td.tid, backfill |-> bf.backfill,
      title |-> ty.title, year |-> ty.year]
\* line.split(' :: ')
RECURSIVE SplitSegments(_)
SplitSegments(line) ==
  LET i == Find(line, <<" ", ":", ":", " ">>)
  IN IF i = 0 THEN <<line>>
     ELSE <<SubSeq(line, 1, i - 1)>> \o SplitSegments(From(line, i + 4))
\* (mutant) lines are stripped but blank ones are kept
ReadLinesKeepingBlank(f) == [k \in DOMAIN f |-> Strip(f[k])]
\* [ln.strip() for ln in f if ln.strip()]
ReadLines(f) ==
  LET NotBlank(ln) == Strip(ln) # <<>>
      kept == SelectSeq(f, NotBlank)
  IN [k \in DOMAIN kept |-> Strip(kept[k])]
\* parse_single_entry: the entry of one segment (no backfill is passed on).
ParseSingleEntry(seg, num, subnum) ==
  JournalEntry(num, subnum, seg.title, seg.mark, seg.year, seg.tid, None, None)
\* parse_line_entries: subnum is the index of the segment in its line, from 0.
ParseLineEntries(line, num) ==
  [i \in DOMAIN line |-> ParseSingleEntry(line[i], num, i - 1)]
\* parse_movie_log: lines numbered from 1.
RECURSIVE ParseMovieLog(_)
ParseMovieLog(lines) ==
  IF lines = <<>> THEN <<>>
  ELSE ParseMovieLog(SubSeq(lines, 1, Len(lines) - 1))
       \o ParseLineEntries(lines[Len(lines)], Len(lines))
\* parse_movie_log on the text of a file f, a tuple of lines.
ParseMovieLogText(f) ==
  LET lines == ReadLines(f)
  IN ParseMovieLog([k \in DOMAIN lines |->
       LET segments == SplitSegments(lines[k])
       IN [i \in DOMAIN segments |-> SegmentFields(segments[i])]])

\* ------------------------------------------------------------- linker.py
\* (mutant) buckets keyed by the title as written
RECURSIVE GroupByTitleYearAsWritten(_)
GroupByTitleYearAsWritten(imdbs) ==
  IF imdbs = <<>> THEN <<>>
  ELSE LET d == GroupByTitleYearAsWritten(SubSeq(imdbs, 1, Len(imdbs) - 1))
           m == imdbs[Len(imdbs)]
           k == <<m.title, Some(m.year)>>
           bucket == IF HasKey(d, k) THEN Val(DictGet(d, k)) ELSE <<>>
       IN DictPut(d, k, Append(bucket, m))
\* (mutant) d[key] = [m] in place of d[key].append(m)
RECURSIVE GroupByTitleYearOverwriting(_)
GroupByTitleYearOverwriting(imdbs) ==
  IF imdbs = <<>> THEN <<>>
  ELSE LET d == GroupByTitleYearOverwriting(SubSeq(imdbs, 1, Len(imdbs) - 1))
           m == imdbs[Len(imdbs)]
           k == <<Lower(m.title), Some(m.year)>>
       IN DictPut(d, k, <<m>>)
\* (mutant) an empty year column is keyed as an absent year
RECURSIVE GroupByTitleYearEmptyAsAbsent(_)
GroupByTitleYearEmptyAsAbsent(imdbs) ==
  IF imdbs = <<>> THEN <<>>
  ELSE LET d == GroupByTitleYearEmptyAsAbsent(SubSeq(imdbs, 1, Len(imdbs) - 1))
           m == imdbs[Len(imdbs)]
           k == <<Lower(m.title), IF m.year = <<>> THEN None ELSE Some(m.year)>>
           bucket == IF HasKey(d, k) THEN Val(DictGet(d, k)) ELSE <<>>
       IN DictPut(d, k, Append(bucket, m))
\* _group_by_title_year: buckets keyed (title.lower(), year), in loader order.
RECURSIVE GroupByTitleYear(_)
GroupByTitleYear(imdbs) ==
  IF imdbs = <<>> THEN <<>>
  ELSE LET d == GroupByTitleYear(SubSeq(imdbs, 1, Len(imdbs) - 1))
           m == imdbs[Len(imdbs)]
           k == <<Lower(m.title), Some(m.year)>>
           bucket == IF HasKey(d, k) THEN Val(DictGet(d, k)) ELSE <<>>
       IN DictPut(d, k, Append(bucket, m))

\* (mutant) the first record of an id is kept (setdefault) in place of the last
RECURSIVE TidImdbsFirstWins(_)
TidImdbsFirstWins(imdbs) ==
  IF imdbs = <<>> THEN <<>>
  ELSE LET d == TidImdbsFirstWins(SubSeq(imdbs, 1, Len(imdbs) - 1))
           m == imdbs[Len(imdbs)]
       IN IF HasKey(d, m.tid) THEN d ELSE Append(d, <<m.tid, m>>)
\* {m.tid: m for m in imdbs}
RECURSIVE TidImdbs(_)
TidImdbs(imdbs) ==
  IF imdbs = <<>> THEN <<>>
  ELSE DictPut(TidImdbs(SubSeq(imdbs, 1, Len(imdbs) - 1)),
               imdbs[Len(imdbs)].tid, imdbs[Len(imdbs)])

\* pickle: an ImdbEntry is written as its class and its field values in field
\* order; a list and a dict as their items in order.
PickleEntry(m) ==
  [cls |-> "ImdbEntry", state |-> <<m.tid, m.title, m.year, m.director, m.composer>>]
UnpickleEntry(p) ==
  ImdbEntry(p.state[1], p.state[2], p.state[3], p.state[4], p.state[5])
PickleList(l) == [i \in DOMAIN l |-> PickleEntry(l[i])]
UnpickleList(p) == [i \in DOMAIN p |-> UnpickleEntry(p[i])]
RECURSIVE UnpickleMappings(_)
UnpickleMappings(items) ==
  IF items = <<>> THEN <<>>
  ELSE DictPut(UnpickleMappings(SubSeq(items, 1, Len(items) - 1)),
               items[Len(items)][1], UnpickleList(items[Len(items)][2]))
RECURSIVE UnpickleTidImdbs(_)
UnpickleTidImdbs(items) ==
  IF items = <<>> THEN <<>>
  ELSE DictPut(UnpickleTidImdbs(SubSeq(items, 1, Len(items) - 1)),
               items[Len(items)][1], UnpickleEntry(items[Len(items)][2]))
\* (mutant) the identifier index is dumped as __init__ left it
PickleDumpEmptyTidImdbs(title_year_mappings, tid_imdbs) ==
  [title_year_mappings |->
     [i \in DOMAIN title_year_mappings |->
        <<title_year_mappings[i][1], PickleList(title_year_mappings[i][2])>>],
   tid_imdbs |-> <<>>]
\* pickle.dump({'title_year_mappings': ..., 'tid_imdbs': ...}, f)
PickleDump(title_year_mappings, tid_imdbs) ==
  [title_year_mappings |->
     [i \in DOMAIN title_year_mappings |->
        <<title_year_mappings[i][1], PickleList(title_year_mappings[i][2])>>],
   tid_imdbs |->
     [i \in DOMAIN tid_imdbs |-> <<tid_imdbs[i][1], PickleEntry(tid_imdbs[i][2])>>]]
\* pickle.load(f), read by its two keys
PickleLoad(artefact) ==
  [title_year_mappings |-> UnpickleMappings(artefact.title_year_mappings),
   tid_imdbs |-> UnpickleTidImdbs(artefact.tid_imdbs)]

\* ------------------------------------------------------------- state
VARIABLES
  imdb_csv,             \* the reference CSV: None when missing, else its rows
  cache_file,           \* the cache artefact: None when missing, else the pickle
  journal_file,         \* the journal file: its non-empty lines, as segments
  title_year_mappings,  \* per mapper: self._title_year_mappings (None or a dict)
  tid_imdbs,            \* per mapper: self._tid_imdbs
  csv_reads,            \* per mapper: times parse_imdb_movies read the CSV
  cache_reads,          \* per mapper: times the artefact was unpickled
  cache_writes,         \* per mapper: times the artefact was written
  cache_writer,         \* the mapper object whose write the cache file holds
  last,                 \* the last event: method, mapper, argument, outcome
  pc                    \* per mapper: where it is in
                        \* _load_or_generate_title_year_mappings ("idle": outside)

vars ==
  <<imdb_csv, cache_file, journal_file, title_year_mappings, tid_imdbs,
    csv_reads, cache_reads, cache_writes, cache_writer, last, pc>>

AssertionError(title, matches) ==
  [type |-> "AssertionError", title |-> title, matches |-> matches]
FileNotFoundError ==
  [type |-> "FileNotFoundError", title |-> <<>>, matches |-> <<>>]

\* (mutant) on a cache hit only _title_year_mappings is taken from the artefact
LoadOrGenerateKeepingTidImdbs(tym, ti, cache, csv) ==
  IF ~IsNone(tym) THEN
    [tym |-> tym, ti |-> ti, cache |-> cache, csv_read |-> 0, cache_read |-> 0,
     cache_written |-> 0, ret |-> tym, exc |-> None]
  ELSE IF ~IsNone(cache) THEN
    LET data == PickleLoad(Val(cache))
    IN [tym |-> Some(data.title_year_mappings), ti |-> ti,
        cache |-> cache, csv_read |-> 0, cache_read |-> 1, cache_written |-> 0,
        ret |-> Some(data.title_year_mappings), exc |-> None]
  ELSE IF IsNone(csv) THEN
    [tym |-> tym, ti |-> ti, cache |-> cache, csv_read |-> 0, cache_read |-> 0,
     cache_written |-> 0, ret |-> None, exc |-> Some(FileNotFoundError)]
  ELSE
    LET imdbs == ParseImdbMovies(Val(csv))
        grouped == GroupByTitleYear(imdbs)
        by_tid == TidImdbs(imdbs)
    IN [tym |-> Some(grouped), ti |-> by_tid,
        cache |-> Some(PickleDump(grouped, by_tid)),
        csv_read |-> 1, cache_read |-> 0, cache_written |-> 1,
        ret |-> Some(grouped), exc |-> None]
\* (mutant) no test of the index in memory: every call goes to the files
LoadOrGenerateNoMemo(tym, ti, cache, csv) ==
  IF ~IsNone(cache) THEN
    LET data == PickleLoad(Val(cache))
    IN [tym |-> Some(data.title_year_mappings), ti |-> data.tid_imdbs,
        cache |-> cache, csv_read |-> 0, cache_read |-> 1, cache_written |-> 0,
        ret |-> Some(data.title_year_mappings), exc |-> None]
  ELSE IF IsNone(csv) THEN
    [tym |-> tym, ti |-> ti, cache |-> cache, csv_read |-> 0, cache_read |-> 0,
     cache_written |-> 0, ret |-> None, exc |-> Some(FileNotFoundError)]
  ELSE
    LET imdbs == ParseImdbMovies(Val(csv))
        grouped == GroupByTitleYear(imdbs)
        by_tid == TidImdbs(imdbs)
    IN [tym |-> Some(grouped), ti |-> by_tid,
        cache |-> Some(PickleDump(grouped, by_tid)),
        csv_read |-> 1, cache_read |-> 0, cache_written |-> 1,
        ret |-> Some(grouped), exc |-> None]
\* (mutant) the index in memory is dropped when the cache file is gone
LoadOrGenerateInvalidating(tym, ti, cache, csv) ==
  IF ~IsNone(tym) /\ ~IsNone(cache) THEN
    [tym |-> tym, ti |-> ti, cache |-> cache, csv_read |-> 0, cache_read |-> 0,
     cache_written |-> 0, ret |-> tym, exc |-> None]
  ELSE LoadOrGenerateNoMemo(tym, ti, cache, csv)
\* _load_or_generate_title_year_mappings of a mapper whose fields are (tym, ti),
\* with the files as they are: the fields and the cache file afterwards, what was
\* read and written, and the value returned or the exception raised.
LoadOrGenerate(tym, ti, cache, csv) ==
  IF ~IsNone(tym) THEN
    [tym |-> tym, ti |-> ti, cache |-> cache, csv_read |-> 0, cache_read |-> 0,
     cache_written |-> 0, ret |-> tym, exc |-> None]
  ELSE IF ~IsNone(cache) THEN
    LET data == PickleLoad(Val(cache))
    IN [tym |-> Some(data.title_year_mappings), ti |-> data.tid_imdbs,
        cache |-> cache, csv_read |-> 0, cache_read |-> 1, cache_written |-> 0,
        ret |-> Some(data.title_year_mappings), exc |-> None]
  ELSE IF IsNone(csv) THEN
    [tym |-> tym, ti |-> ti, cache |-> cache, csv_read |-> 0, cache_read |-> 0,
     cache_written |-> 0, ret |-> None, exc |-> Some(FileNotFoundError)]
  ELSE
    LET imdbs == ParseImdbMovies(Val(csv))
        grouped == GroupByTitleYear(imdbs)
        by_tid == TidImdbs(imdbs)
    IN [tym |-> Some(grouped), ti |-> by_tid,
        cache |-> Some(PickleDump(grouped, by_tid)),
        csv_read |-> 1, cache_read |-> 0, cache_written |-> 1,
        ret |-> Some(grouped), exc |-> None]

\* The loop of assign_tids over a journal with the grouped index `mappings`:
\* the output list, or the assertion that stopped it.
\* (mutant) the lookup also runs for an entry that has an identifier
TidStepAlwaysLooksUp(j, mappings) ==
  LET got == DictGet(mappings, <<Lower(j.title), j.year>>)
      matches == IF IsNone(got) THEN <<>> ELSE Val(got)
  IN IF matches # <<>>
     THEN IF Len(matches) = 1
          THEN [out |-> Some([j EXCEPT !._tid = Some(matches[1].tid)]), exc |-> None]
          ELSE [out |-> None, exc |-> Some(AssertionError(j.title, matches))]
     ELSE [out |-> Some(j), exc |-> None]
\* (mutant) no assertion: the first of several matches is taken
TidStepFirstMatch(j, mappings) ==
  LET got == DictGet(mappings, <<Lower(j.title), j.year>>)
      matches == IF IsNone(got) THEN <<>> ELSE Val(got)
  IN IF IsNone(Tid(j)) /\ matches # <<>>
     THEN [out |-> Some([j EXCEPT !._tid = Some(matches[1].tid)]), exc |-> None]
     ELSE [out |-> Some(j), exc |-> None]
\* (mutant) mappings[key] in place of mappings.get(key): a missing key raises
TidStepSubscript(j, mappings) ==
  LET got == DictGet(mappings, <<Lower(j.title), j.year>>)
      matches == IF IsNone(got) THEN <<>> ELSE Val(got)
  IN IF IsNone(Tid(j))
     THEN IF IsNone(got)
          THEN [out |-> None,
                exc |-> Some([type |-> "KeyError", title |-> j.title, matches |-> <<>>])]
          ELSE IF Len(matches) = 1
          THEN [out |-> Some([j EXCEPT !._tid = Some(matches[1].tid)]), exc |-> None]
          ELSE [out |-> None, exc |-> Some(AssertionError(j.title, matches))]
     ELSE [out |-> Some(j), exc |-> None]
TidStep(j, mappings) ==
  LET got == DictGet(mappings, <<Lower(j.title), j.year>>)
      matches == IF IsNone(got) THEN <<>> ELSE Val(got)
  IN IF IsNone(Tid(j)) /\ matches # <<>>
     THEN IF Len(matches) = 1
          THEN [out |-> Some([j EXCEPT !._tid = Some(matches[1].tid)]), exc |-> None]
          ELSE [out |-> None, exc |-> Some(AssertionError(j.title, matches))]
     ELSE [out |-> Some(j), exc |-> None]
\* (mutant) output.insert(0, j) in place of output.append(j)
RECURSIVE TidLoopPrepending(_, _)
TidLoopPrepending(journal, mappings) ==
  IF journal = <<>> THEN [out |-> Some(<<>>), exc |-> None]
  ELSE LET before == TidLoopPrepending(SubSeq(journal, 1, Len(journal) - 1), mappings)
           step == TidStep(journal[Len(journal)], mappings)
       IN IF ~IsNone(before.exc) THEN before
          ELSE IF ~IsNone(step.exc) THEN step
          ELSE [out |-> Some(<<Val(step.out)>> \o Val(before.out)), exc |-> None]
RECURSIVE TidLoop(_, _)
TidLoop(journal, mappings) ==
  IF journal = <<>> THEN [out |-> Some(<<>>), exc |-> None]
  ELSE LET before == TidLoop(SubSeq(journal, 1, Len(journal) - 1), mappings)
           step == TidStep(journal[Len(journal)], mappings)
       IN IF ~IsNone(before.exc) THEN before
          ELSE IF ~IsNone(step.exc) THEN step
          ELSE [out |-> Some(Append(Val(before.out), Val(step.out))), exc |-> None]

\* What one pass of the loop of assign_tids leaves of the objects it was given:
\* the entry of the input list (j is rebound to a new JournalEntry, the entry in
\* the list stays) and the grouped index after the lookup.
TidStepEffect(j, mappings) ==
  [entry |-> j,
   mappings |-> IF IsNone(Tid(j))
                THEN DictAfterGet(mappings, <<Lower(j.title), j.year>>)
                ELSE mappings]
\* The input list and the grouped index after the loop, run until it ends or an
\* assertion stops it.
RECURSIVE TidLoopEffect(_, _)
TidLoopEffect(journal, mappings) ==
  IF journal = <<>> THEN [journal |-> <<>>, mappings |-> mappings]
  ELSE LET n == Len(journal)
           before == TidLoopEffect(SubSeq(journal, 1, n - 1), mappings)
           ran == IsNone(TidLoop(SubSeq(journal, 1, n - 1), mappings).exc)
           step == TidStepEffect(journal[n], before.mappings)
       IN IF ran
          THEN [journal |-> Append(before.journal, step.entry),
                mappings |-> step.mappings]
          ELSE [journal |-> Append(before.journal, journal[n]),
                mappings |-> before.mappings]

AllHaveTid(journal) == \A i \in DOMAIN journal : ~IsNone(Tid(journal[i]))

\* (mutant) no early return: the index is loaded whatever the journal holds
AssignTidsAlwaysLoading(journal, tym, ti, cache, csv) ==
  LET ld == LoadOrGenerate(tym, ti, cache, csv)
  IN IF ~IsNone(ld.exc) THEN [ld EXCEPT !.ret = None]
     ELSE LET r == TidLoop(journal, Val(ld.ret))
          IN [ld EXCEPT !.ret = r.out, !.exc = r.exc]
\* assign_tids(journal) on a mapper with fields (tym, ti)
AssignTids(journal, tym, ti, cache, csv) ==
  IF AllHaveTid(journal) THEN
    [tym |-> tym, ti |-> ti, cache |-> cache, csv_read |-> 0, cache_read |-> 0,
     cache_written |-> 0, ret |-> Some(journal), exc |-> None]
  ELSE
    LET ld == LoadOrGenerate(tym, ti, cache, csv)
    IN IF ~IsNone(ld.exc) THEN [ld EXCEPT !.ret = None]
       ELSE LET r == TidLoop(journal, Val(ld.ret))
                after == TidLoopEffect(journal, Val(ld.ret))
            IN [ld EXCEPT !.ret = r.out, !.exc = r.exc,
                          !.tym = Some(after.mappings)]
\* The list passed to assign_tids as it is when the call ends.
InputAfterAssignTids(journal, tym, ti, cache, csv) ==
  IF AllHaveTid(journal) THEN journal
  ELSE LET ld == LoadOrGenerate(tym, ti, cache, csv)
       IN IF ~IsNone(ld.exc) THEN journal
          ELSE TidLoopEffect(journal, Val(ld.ret)).journal

\* assign_imdbs(journal) with the identifier index ti
\* (mutant) the first record of the index is attached, whatever its id
ImdbStepFirstRecord(j, ti) ==
  LET m == IF ti = <<>> THEN None ELSE Some(ti[1][2])
  IN IF IsNone(j.imdb) /\ ~IsNone(Tid(j)) /\ Truthy(Val(Tid(j))) /\ ~IsNone(m)
     THEN [j EXCEPT !.imdb = m]
     ELSE j
\* (mutant) no test of j.imdb: the record of the index replaces an attached one
ImdbStepReplacing(j, ti) ==
  LET m == IF IsNone(Tid(j)) THEN None ELSE DictGet(ti, Val(Tid(j)))
  IN IF ~IsNone(Tid(j)) /\ Truthy(Val(Tid(j))) /\ ~IsNone(m)
     THEN [j EXCEPT !.imdb = m]
     ELSE j
ImdbStep(j, ti) ==
  LET m == IF IsNone(Tid(j)) THEN None ELSE DictGet(ti, Val(Tid(j)))
  IN IF IsNone(j.imdb) /\ ~IsNone(Tid(j)) /\ Truthy(Val(Tid(j))) /\ ~IsNone(m)
     THEN [j EXCEPT !.imdb = m]
     ELSE j
AssignImdbs(journal, ti) == [i \in DOMAIN journal |-> ImdbStep(journal[i], ti)]
\* The list passed to assign_imdbs as it is when the call ends: output is a new
\* list and j is rebound, the list and its entries stay.
InputAfterAssignImdbs(journal, ti) == [i \in DOMAIN journal |-> journal[i]]

\* parse_raw_journal
ParseRawJournal(file) == ParseMovieLog(file)

\* load_journal
LoadJournal(file, tym, ti, cache, csv) ==
  LET linked == AssignTids(ParseRawJournal(file), tym, ti, cache, csv)
  IN IF ~IsNone(linked.exc) THEN linked
     ELSE [linked EXCEPT !.ret = Some(AssignImdbs(Val(linked.ret), linked.ti))]

\* An event that is no call of a method that reads or returns anything.
Event(op, m) ==
  [op |-> op, m |-> m, arg |-> <<>>, arg_after |-> <<>>, ret |-> None,
   mappings |-> None, exc |-> None, csv_read |-> 0, cache_read |-> 0,
   cache_written |-> 0]
\* A call of method op on mapper m with outcome r; arg_after is the argument
\* object as it is when the call ends.
Call(op, m, arg, ret, mappings, r) ==
  [op |-> op, m |-> m, arg |-> arg, arg_after |-> arg, ret |-> ret,
   mappings |-> mappings, exc |-> r.exc, csv_read |-> r.csv_read,
   cache_read |-> r.cache_read, cache_written |-> r.cache_written]

Init ==
  /\ imdb_csv \in {Some(rows) : rows \in CsvFiles}
  /\ cache_file = None
  /\ journal_file \in JournalFiles
  /\ title_year_mappings = [m \in Mappers |-> None]
  /\ tid_imdbs = [m \in Mappers |-> <<>>]
  /\ csv_reads = [m \in Mappers |-> 0]
  /\ cache_reads = [m \in Mappers |-> 0]
  /\ cache_writes = [m \in Mappers |-> 0]
  /\ cache_writer = None
  /\ last = Event("__init__", DefaultMapper)
  /\ pc = [m \in Mappers |-> "idle"]

\* What a call on mapper m leaves behind.
Effect(m, r) ==
  /\ title_year_mappings' = [title_year_mappings EXCEPT ![m] = r.tym]
  /\ tid_imdbs' = [tid_imdbs EXCEPT ![m] = r.ti]
  /\ cache_file' = r.cache
  /\ csv_reads' = [csv_reads EXCEPT ![m] = @ + r.csv_read]
  /\ cache_reads' = [cache_reads EXCEPT ![m] = @ + r.cache_read]
  /\ cache_writes' = [cache_writes EXCEPT ![m] = @ + r.cache_written]
  /\ cache_writer' = IF r.cache_written = 1 THEN Some(m) ELSE cache_writer
  /\ UNCHANGED <<pc, imdb_csv, journal_file>>

\* The journals a caller holds: the parsed file, or what the last call returned.
Journals ==
  {ParseRawJournal(journal_file)}
    \cup (IF IsNone(last.ret) THEN {} ELSE {Val(last.ret)})

\* ImdbTidMapper.__init__: a new mapper object (a new process) in place of m.
Construct(m) ==
  /\ title_year_mappings' = [title_year_mappings EXCEPT ![m] = None]
  /\ tid_imdbs' = [tid_imdbs EXCEPT ![m] = <<>>]
  /\ csv_reads' = [csv_reads EXCEPT ![m] = 0]
  /\ cache_reads' = [cache_reads EXCEPT ![m] = 0]
  /\ cache_writes' = [cache_writes EXCEPT ![m] = 0]
  /\ cache_writer' = IF cache_writer = Some(m) THEN Some("gone") ELSE cache_writer
  /\ last' = Event("__init__", m)
  /\ UNCHANGED <<pc, imdb_csv, cache_file, journal_file>>

CallLoadOrGenerate(m) ==
  LET r == LoadOrGenerate(title_year_mappings[m], tid_imdbs[m], cache_file, imdb_csv)
  IN /\ Effect(m, r)
     /\ last' = Call("_load_or_generate_title_year_mappings", m, <<>>, None,
                     r.ret, r)

CallAssignTids(m) ==
  \E journal \in Journals :
    LET r == AssignTids(journal, title_year_mappings[m], tid_imdbs[m],
                        cache_file, imdb_csv)
    IN /\ Effect(m, r)
       /\ last' = [Call("assign_tids", m, journal, r.ret, None, r) EXCEPT
                     !.arg_after =
                       InputAfterAssignTids(journal, title_year_mappings[m],
                                            tid_imdbs[m], cache_file, imdb_csv)]

CallAssignImdbs(m) ==
  \E journal \in Journals :
    /\ last' = [Event("assign_imdbs", m) EXCEPT
                  !.arg = journal,
                  !.arg_after = InputAfterAssignImdbs(journal, tid_imdbs[m]),
                  !.ret = Some(AssignImdbs(journal, tid_imdbs[m]))]
    /\ UNCHANGED <<pc, imdb_csv, cache_file, journal_file, title_year_mappings,
                   tid_imdbs, csv_reads, cache_reads, cache_writes, cache_writer>>

CallLoadJournal(m) ==
  LET r == LoadJournal(journal_file, title_year_mappings[m], tid_imdbs[m],
                       cache_file, imdb_csv)
  IN /\ Effect(m, r)
     /\ last' = [Call("load_journal", m, ParseRawJournal(journal_file), r.ret,
                      None, r) EXCEPT
                   !.arg_after =
                     InputAfterAssignTids(ParseRawJournal(journal_file),
                                          title_year_mappings[m], tid_imdbs[m],
                                          cache_file, imdb_csv)]

\* The environment: the operator deletes the cache file, rewrites the reference
\* CSV without its last row, or removes it.
DeleteCache ==
  /\ ~IsNone(cache_file)
  /\ cache_file' = None
  /\ cache_writer' = None
  /\ last' = Event("rm cache_file", DefaultMapper)
  /\ UNCHANGED <<pc, imdb_csv, journal_file, title_year_mappings, tid_imdbs,
                 csv_reads, cache_reads, cache_writes>>

RewriteCsv ==
  /\ ~IsNone(imdb_csv)
  /\ Val(imdb_csv) # <<>>
  /\ imdb_csv' = Some(SubSeq(Val(imdb_csv), 1, Len(Val(imdb_csv)) - 1))
  /\ last' = Event("rewrite imdb_csv", DefaultMapper)
  /\ UNCHANGED <<pc, cache_file, journal_file, title_year_mappings, tid_imdbs,
                 csv_reads, cache_reads, cache_writes, cache_writer>>

DeleteCsv ==
  /\ ~IsNone(imdb_csv)
  /\ imdb_csv' = None
  /\ last' = Event("rm imdb_csv", DefaultMapper)
  /\ UNCHANGED <<pc, cache_file, journal_file, title_year_mappings, tid_imdbs,
                 csv_reads, cache_reads, cache_writes, cache_writer>>

\* One process: the dashboard's mapper and the operator's changes to the files.
Next ==
  \/ Construct(DefaultMapper)
  \/ CallLoadOrGenerate(DefaultMapper)
  \/ CallAssignTids(DefaultMapper)
  \/ CallAssignImdbs(DefaultMapper)
  \/ CallLoadJournal(DefaultMapper)
  \/ DeleteCache
  \/ RewriteCsv
  \/ DeleteCsv

Spec == Init /\ [][Next]_vars

\* Two processes sharing cache_file, one call at a time.
NextShared ==
  \/ \E m \in Mappers : CallLoadOrGenerate(m)
  \/ \E m \in Mappers : CallAssignTids(m)
  \/ \E m \in Mappers : CallAssignImdbs(m)
  \/ \E m \in Mappers : CallLoadJournal(m)
  \/ DeleteCache

SpecShared == Init /\ [][NextShared]_vars

\* ------------------------------------------------------------- value objects
\* Catalog records a journal entry may carry.
ImdbEntryValues ==
  {ImdbEntry("tt1", <<"U", "p">>, <<2, 0, 0, 9>>, "Pete Docter", "Michael Giacchino"),
   ImdbEntry("tt2", <<"U", "P">>, <<2, 0, 0, 9>>, "Ann Hui", "")}
\* Journal entries as the constructor of JournalEntry accepts them.
JournalEntryValues ==
  {JournalEntry(position, subnum, title, None, None, tid, None, imdb) :
     position \in {1, 2}, subnum \in {0, 1},
     title \in {<<"U", "p">>, <<"U", "P">>},
     tid \in {None, Some("tt2")},
     imdb \in {None} \cup {Some(m) : m \in ImdbEntryValues}}

\* The identifier indices a mapper can hold.
IdentifierIndices == {TidImdbs(ParseImdbMovies(rows)) : rows \in CsvFiles}

\* A journal entry `self` and another value `other` have been constructed,
\* last.arg holds the two; the mapper holds some identifier index.
InitModels ==
  /\ imdb_csv = None
  /\ cache_file = None
  /\ journal_file = <<>>
  /\ title_year_mappings = [m \in Mappers |-> None]
  /\ \E ti \in IdentifierIndices : tid_imdbs = [m \in Mappers |-> ti]
  /\ csv_reads = [m \in Mappers |-> 0]
  /\ cache_reads = [m \in Mappers |-> 0]
  /\ cache_writes = [m \in Mappers |-> 0]
  /\ cache_writer = None
  /\ \E self \in JournalEntryValues, other \in JournalEntryValues \cup ImdbEntryValues :
       last = [Event("__init__", DefaultMapper) EXCEPT !.arg = <<self, other>>]
  /\ pc = [m \in Mappers |-> "idle"]

\* self == other
CallEq ==
  /\ last' = [Event("__eq__", DefaultMapper) EXCEPT
                !.arg = last.arg,
                !.ret = Some(JournalEntryEq(last.arg[1], last.arg[2]))]
  /\ UNCHANGED <<pc, imdb_csv, cache_file, journal_file, title_year_mappings,
                 tid_imdbs, csv_reads, cache_reads, cache_writes, cache_writer>>
\* hash(self)
CallHash ==
  /\ last' = [Event("__hash__", DefaultMapper) EXCEPT
                !.arg = last.arg,
                !.ret = Some(JournalEntryHash(last.arg[1]))]
  /\ UNCHANGED <<pc, imdb_csv, cache_file, journal_file, title_year_mappings,
                 tid_imdbs, csv_reads, cache_reads, cache_writes, cache_writer>>
\* self.tid
CallTid ==
  /\ last' = [Event("tid", DefaultMapper) EXCEPT
                !.arg = last.arg,
                !.ret = Some(Tid(last.arg[1]))]
  /\ UNCHANGED <<pc, imdb_csv, cache_file, journal_file, title_year_mappings,
                 tid_imdbs, csv_reads, cache_reads, cache_writes, cache_writer>>

\* assign_imdbs on the journal of the two entries
CallAssignImdbsOnValues ==
  /\ IsJournalEntry(last.arg[2])
  /\ last' = [Event("assign_imdbs", DefaultMapper) EXCEPT
                !.arg = last.arg,
                !.ret = Some(AssignImdbs(last.arg, tid_imdbs[DefaultMapper]))]
  /\ UNCHANGED <<pc, imdb_csv, cache_file, journal_file, title_year_mappings,
                 tid_imdbs, csv_reads, cache_reads, cache_writes, cache_writer>>

NextModels == CallEq \/ CallHash \/ CallTid \/ CallAssignImdbsOnValues

SpecModels == InitModels /\ [][NextModels]_vars

\* ------------------------------------------------------------- journal texts
\* The parts of a segment's text.
TheMatrix == <<"T", "h", "e", " ", "M", "a", "t", "r", "i", "x">>
Year1999 == <<" ", "(", "1", "9", "9", "9", ")">>
StarMark == <<" ", "*">>
BombMark == <<" ", "(", "b", "o", "m", "b", ")">>
TidBracket == <<" ", "[", "t", "t", "0", "1", "3", "3", "0", "9", "3", "]">>
BackfillBracket == <<" ", "[", "b", "f", ":", "g", "u", "e", "s", "s", "e", "d", "]">>
\* Segments: the title, then optionally a year, a mark, an identifier, a backfill.
SegmentTexts ==
  {TheMatrix \o y \o m \o t \o b :
     y \in {<<>>, Year1999}, m \in {<<>>, StarMark, BombMark},
     t \in {<<>>, TidBracket}, b \in {<<>>, BackfillBracket}}
\* Lines of a file: empty, blanks only, one segment (also with blanks around it),
\* two segments.
LineTexts ==
  {<<>>,
   <<" ", " ">>,
   <<"A", " ", "(", "2", "0", "0", "0", ")">>,
   <<" ", "B", " ", "(", "2", "0", "0", "1", ")", " ">>,
   <<"A", " ", "(", "2", "0", "0", "0", ")", " ", ":", ":", " ",
     "B", " ", "(", "2", "0", "0", "1", ")">>}
\* Journal texts: up to MaxLines lines, or one line of one segment.
TextFiles ==
  UNION {[1..n -> LineTexts] : n \in 0..MaxLines}
    \cup {<<t>> : t \in SegmentTexts}

\* A journal text on disk, nothing else.
InitParser ==
  /\ imdb_csv = None
  /\ cache_file = None
  /\ journal_file \in TextFiles
  /\ title_year_mappings = [m \in Mappers |-> None]
  /\ tid_imdbs = [m \in Mappers |-> <<>>]
  /\ csv_reads = [m \in Mappers |-> 0]
  /\ cache_reads = [m \in Mappers |-> 0]
  /\ cache_writes = [m \in Mappers |-> 0]
  /\ cache_writer = None
  /\ last = Event("__init__", DefaultMapper)
  /\ pc = [m \in Mappers |-> "idle"]

\* parse_movie_log(path)
CallParseMovieLog ==
  /\ last' = [Event("parse_movie_log", DefaultMapper) EXCEPT
                !.arg = journal_file,
                !.ret = Some(ParseMovieLogText(journal_file))]
  /\ UNCHANGED <<pc, imdb_csv, cache_file, journal_file, title_year_mappings,
                 tid_imdbs, csv_reads, cache_reads, cache_writes, cache_writer>>
\* parse_single_entry(segment, num, subnum) as parse_line_entries calls it for
\* the segments of the file
CallParseSingleEntry ==
  \E num \in DOMAIN ReadLines(journal_file) :
    \E i \in DOMAIN SplitSegments(ReadLines(journal_file)[num]) :
      LET segment == SplitSegments(ReadLines(journal_file)[num])[i]
      IN /\ last' = [Event("parse_single_entry", DefaultMapper) EXCEPT
                       !.arg = <<segment, num, i - 1>>,
                       !.ret = Some(ParseSingleEntry(SegmentFields(segment),
                                                     num, i - 1))]
         /\ UNCHANGED <<pc, imdb_csv, cache_file, journal_file, title_year_mappings,
                        tid_imdbs, csv_reads, cache_reads, cache_writes,
                        cache_writer>>

NextParser == CallParseMovieLog \/ CallParseSingleEntry

SpecParser == InitParser /\ [][NextParser]_vars

\* ------------------------------------------------------------- two processes, line by line
\* What cache_file holds between open(self.cache_file, 'wb'), which creates or
\* truncates it, and the end of the with block of pickle.dump: no whole pickle.
Incomplete == [truncated |-> TRUE]
\* pickle.load on a file that holds no whole pickle: EOFError on an empty file,
\* UnpicklingError on a truncated one.
EOFError == [type |-> "EOFError", title |-> <<>>, matches |-> <<>>]
UnpicklingError == [type |-> "UnpicklingError", title |-> <<>>, matches |-> <<>>]
\* The outcome of a step or call that read and wrote what the counts say.
Outcome(exc, csv_read, cache_read, cache_written) ==
  [exc |-> exc, csv_read |-> csv_read, cache_read |-> cache_read,
   cache_written |-> cache_written]

InitRace ==
  /\ imdb_csv \in {Some(rows) : rows \in CsvFiles}
  /\ cache_file = None
  /\ journal_file = <<>>
  /\ title_year_mappings = [m \in Mappers |-> None]
  /\ tid_imdbs = [m \in Mappers |-> <<>>]
  /\ csv_reads = [m \in Mappers |-> 0]
  /\ cache_reads = [m \in Mappers |-> 0]
  /\ cache_writes = [m \in Mappers |-> 0]
  /\ cache_writer = None
  /\ last = Event("__init__", DefaultMapper)
  /\ pc = [m \in Mappers |-> "idle"]

\* Lines 47 to 50: the call begins; with an index in memory it returns it, else
\* it tests self.cache_file.exists() and takes one branch.
CheckCache(m) ==
  /\ pc[m] = "idle"
  /\ IF ~IsNone(title_year_mappings[m])
     THEN /\ pc' = pc
          /\ last' = Call("_load_or_generate_title_year_mappings", m, <<>>, None,
                          title_year_mappings[m], Outcome(None, 0, 0, 0))
     ELSE /\ pc' = [pc EXCEPT ![m] = IF ~IsNone(cache_file) THEN "load" ELSE "parse"]
          /\ last' = Event("exists", m)
  /\ UNCHANGED <<imdb_csv, cache_file, journal_file, title_year_mappings, tid_imdbs,
                 csv_reads, cache_reads, cache_writes, cache_writer>>

\* Lines 52 to 55 and 73: the file is opened and unpickled as it is now.
ReadCache(m) ==
  /\ pc[m] = "load"
  /\ pc' = [pc EXCEPT ![m] = "idle"]
  /\ IF IsNone(cache_file)
     THEN /\ last' = Call("_load_or_generate_title_year_mappings", m, <<>>, None,
                          None, Outcome(Some(FileNotFoundError), 0, 0, 0))
          /\ UNCHANGED <<title_year_mappings, tid_imdbs, cache_reads>>
     ELSE IF Val(cache_file) = Incomplete
     THEN /\ \E exc \in {EOFError, UnpicklingError} :
               last' = Call("_load_or_generate_title_year_mappings", m, <<>>, None,
                            None, Outcome(Some(exc), 0, 0, 0))
          /\ UNCHANGED <<title_year_mappings, tid_imdbs, cache_reads>>
     ELSE LET data == PickleLoad(Val(cache_file))
          IN /\ title_year_mappings' =
                  [title_year_mappings EXCEPT ![m] = Some(data.title_year_mappings)]
             /\ tid_imdbs' = [tid_imdbs EXCEPT ![m] = data.tid_imdbs]
             /\ cache_reads' = [cache_reads EXCEPT ![m] = @ + 1]
             /\ last' = Call("_load_or_generate_title_year_mappings", m, <<>>, None,
                             Some(data.title_year_mappings), Outcome(None, 0, 1, 0))
  /\ UNCHANGED <<imdb_csv, cache_file, journal_file, csv_reads, cache_writes,
                 cache_writer>>

\* Lines 58 to 62: the CSV is parsed and both indices are set.
ParseAndGroup(m) ==
  /\ pc[m] = "parse"
  /\ IF IsNone(imdb_csv)
     THEN /\ pc' = [pc EXCEPT ![m] = "idle"]
          /\ last' = Call("_load_or_generate_title_year_mappings", m, <<>>, None,
                          None, Outcome(Some(FileNotFoundError), 0, 0, 0))
          /\ UNCHANGED <<title_year_mappings, tid_imdbs, csv_reads>>
     ELSE LET imdbs == ParseImdbMovies(Val(imdb_csv))
          IN /\ pc' = [pc EXCEPT ![m] = "open"]
             /\ title_year_mappings' =
                  [title_year_mappings EXCEPT ![m] = Some(GroupByTitleYear(imdbs))]
             /\ tid_imdbs' = [tid_imdbs EXCEPT ![m] = TidImdbs(imdbs)]
             /\ csv_reads' = [csv_reads EXCEPT ![m] = @ + 1]
             /\ last' = [Event("parse_imdb_movies", m) EXCEPT !.csv_read = 1]
  /\ UNCHANGED <<imdb_csv, cache_file, journal_file, cache_reads, cache_writes,
                 cache_writer>>

\* (mutant) the pickle is written to a file of another name, renamed at the end
OpenCacheForWritingElsewhere(m) ==
  /\ pc[m] = "open"
  /\ pc' = [pc EXCEPT ![m] = "dump"]
  /\ last' = Event("open", m)
  /\ UNCHANGED <<imdb_csv, cache_file, journal_file, title_year_mappings, tid_imdbs,
                 csv_reads, cache_reads, cache_writes, cache_writer>>
\* Lines 65 and 66: open(self.cache_file, 'wb') creates the file or empties it.
OpenCacheForWriting(m) ==
  /\ pc[m] = "open"
  /\ pc' = [pc EXCEPT ![m] = "dump"]
  /\ cache_file' = Some(Incomplete)
  /\ last' = Event("open", m)
  /\ UNCHANGED <<imdb_csv, journal_file, title_year_mappings, tid_imdbs,
                 csv_reads, cache_reads, cache_writes, cache_writer>>

\* Lines 67 to 73: the pickle is written, the file closed, the index returned.
DumpAndReturn(m) ==
  /\ pc[m] = "dump"
  /\ pc' = [pc EXCEPT ![m] = "idle"]
  /\ cache_file' = Some(PickleDump(Val(title_year_mappings[m]), tid_imdbs[m]))
  /\ cache_writes' = [cache_writes EXCEPT ![m] = @ + 1]
  /\ cache_writer' = Some(m)
  /\ last' = Call("_load_or_generate_title_year_mappings", m, <<>>, None,
                  title_year_mappings[m], Outcome(None, 1, 0, 1))
  /\ UNCHANGED <<imdb_csv, journal_file, title_year_mappings, tid_imdbs,
                 csv_reads, cache_reads>>

\* Two processes on one cache_file, their steps interleaved in any order.
NextRace ==
  \/ \E m \in Mappers : CheckCache(m)
  \/ \E m \in Mappers : ReadCache(m)
  \/ \E m \in Mappers : ParseAndGroup(m)
  \/ \E m \in Mappers : OpenCacheForWriting(m)
  \/ \E m \in Mappers : DumpAndReturn(m)

SpecRace == InitRace /\ [][NextRace]_vars

\* ------------------------------------------------------------- properties
Returned == ~IsNone(last.ret)

\* The grouped index the mapper of the last call holds, and the bucket it has for
\* the key of entry j (empty when it has none).
Mappings == Val(title_year_mappings[last.m])
Bucket(j) ==
  LET got == DictGet(Mappings, <<Lower(j.title), j.year>>)
  IN IF IsNone(got) THEN <<>> ELSE Val(got)
\* The last call ran the loop of assign_tids over last.arg with Mappings.
Linked ==
  /\ last.op \in {"assign_tids", "load_journal"}
  /\ ~IsNone(title_year_mappings[last.m])
  /\ \E i \in DOMAIN last.arg : IsNone(Tid(last.arg[i]))

\* The identifier index of the reference dataset as it is on disk.
ReferenceIndex == TidImdbs(ParseImdbMovies(Val(imdb_csv)))
\* Whatever the mapper of the last call and the cache file hold was built from the
\* reference dataset as it is on disk.
NothingStale ==
  /\ ~IsNone(imdb_csv)
  /\ ~IsNone(cache_file) =>
       PickleLoad(Val(cache_file)).tid_imdbs = ReferenceIndex
  /\ ~IsNone(title_year_mappings[last.m]) =>
       tid_imdbs[last.m] = ReferenceIndex

\* C1: every entry load_journal returns whose tid is a key of the identifier index
\* of the reference dataset carries that catalog record as imdb, for every
\* journal, including those whose entries all have an explicit identifier.
C1_LoadJournalAttachesRecord ==
  (last.op = "load_journal" /\ Returned /\ NothingStale) =>
    \A i \in DOMAIN Val(last.ret) :
      LET j == Val(last.ret)[i]
      IN (~IsNone(Tid(j)) /\ HasKey(ReferenceIndex, Val(Tid(j)))) =>
           j.imdb = DictGet(ReferenceIndex, Val(Tid(j)))

\* C2: an entry whose _tid is set comes out of assign_tids at the same index equal
\* field for field, whatever the grouped index holds under its key.
C2_ExplicitIdUnchanged ==
  (last.op = "assign_tids" /\ Returned) =>
    \A i \in DOMAIN last.arg :
      ~IsNone(last.arg[i]._tid) =>
        /\ i \in DOMAIN Val(last.ret)
        /\ Val(last.ret)[i] = last.arg[i]
\* assign_tids ran its loop over an entry with an explicit identifier whose key
\* has several records in the grouped index, and over one whose only match has
\* another id.
C2_Witness ==
  /\ last.op = "assign_tids" /\ Returned /\ Linked
  /\ \E i \in DOMAIN last.arg :
       /\ ~IsNone(last.arg[i]._tid)
       /\ Len(Bucket(last.arg[i])) > 1
  /\ cache_reads[last.m] = 0

\* C3: when the grouped index holds more than one record under the key of an entry
\* without identifier, assign_tids returns no journal: it stops with an assertion
\* error naming the title and the candidate records of such an entry.
C3_AmbiguousStops ==
  (Linked /\ \E i \in DOMAIN last.arg :
               IsNone(Tid(last.arg[i])) /\ Len(Bucket(last.arg[i])) > 1) =>
    /\ ~Returned
    /\ ~IsNone(last.exc)
    /\ Val(last.exc).type = "AssertionError"
    /\ \E i \in DOMAIN last.arg :
         /\ IsNone(Tid(last.arg[i]))
         /\ Len(Bucket(last.arg[i])) > 1
         /\ Val(last.exc).title = last.arg[i].title
         /\ Val(last.exc).matches = Bucket(last.arg[i])
         /\ \A k \in 1..(i - 1) :
              ~(IsNone(Tid(last.arg[k])) /\ Len(Bucket(last.arg[k])) > 1)
\* assign_tids stopped on an ambiguous entry that came after an entry it had
\* already linked.
C3_Witness ==
  /\ last.op = "assign_tids" /\ Linked /\ ~Returned
  /\ Val(last.exc).type = "AssertionError"
  /\ Len(Val(last.exc).matches) = 2
  /\ Len(last.arg) = 2
  /\ Val(last.exc).title = last.arg[2].title

\* C4: an entry without identifier whose key has no record in the grouped index
\* raises no error and comes out unchanged, tid still absent; load_journal returns
\* it with tid and imdb absent.
C4_NoMatchPassesThrough ==
  Linked =>
    \A i \in DOMAIN last.arg :
      (IsNone(Tid(last.arg[i])) /\ Bucket(last.arg[i]) = <<>>) =>
        IF Returned
        THEN /\ IsNone(last.exc)
             /\ i \in DOMAIN Val(last.ret)
             /\ Val(last.ret)[i] = last.arg[i]
             /\ IsNone(Tid(Val(last.ret)[i]))
             /\ IsNone(Val(last.ret)[i].imdb)
        ELSE /\ Val(last.exc).type = "AssertionError"
             /\ Len(Val(last.exc).matches) > 1
\* load_journal returned a journal with an entry that has no match although the
\* catalog is not empty.
C4_Witness ==
  /\ last.op = "load_journal" /\ Linked /\ Returned
  /\ Mappings # <<>>
  /\ \E i \in DOMAIN last.arg :
       /\ IsNone(Tid(last.arg[i])) /\ Bucket(last.arg[i]) = <<>>
       /\ ~IsNone(last.arg[i].year)

\* The records of a grouped index, bucket after bucket.
RECURSIVE Records(_)
Records(d) ==
  IF d = <<>> THEN <<>> ELSE Records(SubSeq(d, 1, Len(d) - 1)) \o d[Len(d)][2]
\* The records of Mappings with the title of j up to case, and its year.
Candidates(j) ==
  LET Same(r) == Lower(r.title) = Lower(j.title) /\ Some(r.year) = j.year
  IN SelectSeq(Records(Mappings), Same)

\* C5: an entry without identifier whose key has exactly one record in the grouped
\* index comes out as a new entry with that record's tid as _tid and its other
\* fields as they were; the record is the one whose title equals the entry's up
\* to case and whose year equals the entry's.
C5_SingleMatchLinked ==
  (last.op = "assign_tids" /\ Linked /\ Returned) =>
    \A i \in DOMAIN last.arg :
      LET j == last.arg[i]
      IN (IsNone(Tid(j)) /\ (Len(Bucket(j)) = 1 \/ Len(Candidates(j)) = 1)) =>
           /\ Bucket(j) = Candidates(j)
           /\ Val(last.ret)[i] =
                JournalEntry(j.position, j.subnum, j.title, j.mark, j.year,
                             Some(Candidates(j)[1].tid), j.backfill, j.imdb)
\* assign_tids linked a marked entry to a record whose title is written in
\* another case.
C5_Witness ==
  /\ last.op = "assign_tids" /\ Linked /\ Returned
  /\ \E i \in DOMAIN last.arg :
       /\ IsNone(Tid(last.arg[i]))
       /\ Len(Bucket(last.arg[i])) = 1
       /\ Bucket(last.arg[i])[1].title # last.arg[i].title
       /\ ~IsNone(last.arg[i].mark)
       /\ Val(last.ret)[i]._tid = Some(Bucket(last.arg[i])[1].tid)

\* C6: when assign_tids returns, and when assign_imdbs returns, the output has the
\* length of the input and every output entry has the position, subnum and title
\* of the input entry at its index.
C6_SameLengthAndOrder ==
  (last.op \in {"assign_tids", "assign_imdbs"} /\ Returned) =>
    /\ Len(Val(last.ret)) = Len(last.arg)
    /\ \A i \in DOMAIN last.arg :
         /\ Val(last.ret)[i].position = last.arg[i].position
         /\ Val(last.ret)[i].subnum = last.arg[i].subnum
         /\ Val(last.ret)[i].title = last.arg[i].title
\* assign_tids returned a journal of two entries of which it linked one.
C6_Witness ==
  /\ last.op = "assign_tids" /\ Linked /\ Returned
  /\ Len(last.arg) = MaxEntries
  /\ \E i \in DOMAIN last.arg : Val(last.ret)[i] # last.arg[i]
  /\ \E i \in DOMAIN last.arg : Val(last.ret)[i] = last.arg[i]

\* An entry with a resolved identifier, by its fields.
Resolved(j) == ~IsNone(j._tid) \/ (~IsNone(j.imdb) /\ Val(j.imdb).tid # "")
AllResolved(journal) == \A i \in DOMAIN journal : Resolved(journal[i])

\* C7: assign_tids on a journal whose entries all have a resolved identifier
\* returns a journal equal to its input, and run again on that result returns the
\* same journal.
C7_ResolvedJournalIdempotent ==
  [][/\ (last'.op = "assign_tids" /\ AllResolved(last'.arg)) =>
          (last'.ret = Some(last'.arg) /\ IsNone(last'.exc))
     /\ (/\ last.op = "assign_tids" /\ AllResolved(last.arg) /\ Returned
         /\ last'.op = "assign_tids" /\ last'.arg = Val(last.ret)) =>
          (last'.ret = last.ret /\ last'.ret = Some(last.arg))]_vars
\* assign_tids returned a resolved journal as it was although the grouped index in
\* memory has one record, of another id, under the key of one of its entries.
C7_Witness ==
  /\ last.op = "assign_tids" /\ AllResolved(last.arg) /\ last.arg # <<>>
  /\ last.ret = Some(last.arg)
  /\ ~IsNone(title_year_mappings[last.m])
  /\ \E i \in DOMAIN last.arg :
       /\ Len(Bucket(last.arg[i])) = 1
       /\ Some(Bucket(last.arg[i])[1].tid) # last.arg[i]._tid

LoadOp == "_load_or_generate_title_year_mappings"
\* The step is a call that runs _load_or_generate_title_year_mappings on the
\* mapper last'.m.
LoadingStep ==
  \/ last'.op = LoadOp
  \/ last'.op \in {"assign_tids", "load_journal"} /\ ~AllResolved(last'.arg)

\* Record r has the field values the pickled entry p holds.
SameEntry(r, p) ==
  /\ p.cls = "ImdbEntry"
  /\ <<r.tid, r.title, r.year, r.director, r.composer>> = p.state
\* The grouped index g and the identifier index t are the ones the artefact holds:
\* the same keys in the same order, with the same records under each.
SameAsStored(g, t, artefact) ==
  /\ Len(g) = Len(artefact.title_year_mappings)
  /\ \A i \in DOMAIN g :
       /\ g[i][1] = artefact.title_year_mappings[i][1]
       /\ Len(g[i][2]) = Len(artefact.title_year_mappings[i][2])
       /\ \A k \in DOMAIN g[i][2] :
            SameEntry(g[i][2][k], artefact.title_year_mappings[i][2][k])
  /\ Len(t) = Len(artefact.tid_imdbs)
  /\ \A i \in DOMAIN t :
       /\ t[i][1] = artefact.tid_imdbs[i][1]
       /\ SameEntry(t[i][2], artefact.tid_imdbs[i][2])

\* C8: with an artefact at cache_file and no index in memory,
\* _load_or_generate_title_year_mappings returns the grouped index and sets the
\* identifier index stored in the artefact, reads no CSV and writes no cache file,
\* whatever the CSV is.
C8_CacheHitTrustsArtefact ==
  [][(/\ LoadingStep
      /\ IsNone(title_year_mappings[last'.m])
      /\ ~IsNone(cache_file)) =>
       /\ cache_file' = cache_file
       /\ cache_writes' = cache_writes
       /\ csv_reads' = csv_reads
       /\ last'.csv_read = 0 /\ last'.cache_written = 0 /\ last'.cache_read = 1
       /\ ~IsNone(title_year_mappings'[last'.m])
       /\ SameAsStored(Val(title_year_mappings'[last'.m]), tid_imdbs'[last'.m],
                       Val(cache_file))
       /\ last'.op = LoadOp =>
            (last'.mappings = title_year_mappings'[last'.m] /\ IsNone(last'.exc))]_vars
\* A mapper took a non-empty index from the artefact while the CSV was missing.
C8_Witness ==
  /\ last.op = LoadOp /\ last.cache_read = 1
  /\ IsNone(imdb_csv)
  /\ ~IsNone(last.mappings) /\ Val(last.mappings) # <<>>
  /\ tid_imdbs[last.m] # <<>>

\* C9: a mapper writes the artefact only on a cache miss, once, with both indices
\* as built from the CSV, and has it written when the index is in its memory; a
\* miss with a readable CSV writes it; no later call on that mapper writes
\* cache_file again.
C9_OneWritePerMiss ==
  [][\A m \in Mappers :
       /\ cache_writes'[m] <= 1
       /\ (cache_writes'[m] = cache_writes[m] + 1) =>
            /\ last'.m = m /\ LoadingStep
            /\ cache_writes[m] = 0
            /\ IsNone(title_year_mappings[m]) /\ IsNone(cache_file)
            /\ ~IsNone(imdb_csv)
            /\ title_year_mappings'[m] =
                 Some(GroupByTitleYear(ParseImdbMovies(Val(imdb_csv))))
            /\ tid_imdbs'[m] = TidImdbs(ParseImdbMovies(Val(imdb_csv)))
            /\ ~IsNone(cache_file')
            /\ SameAsStored(Val(title_year_mappings'[m]), tid_imdbs'[m],
                            Val(cache_file'))
       /\ (/\ last'.m = m /\ LoadingStep
           /\ IsNone(title_year_mappings[m]) /\ IsNone(cache_file)
           /\ ~IsNone(imdb_csv)) =>
            cache_writes'[m] = cache_writes[m] + 1
       /\ (/\ last'.m = m
           /\ last'.op \in {LoadOp, "assign_tids", "assign_imdbs", "load_journal"}
           /\ ~IsNone(title_year_mappings[m])) =>
            (cache_file' = cache_file /\ cache_writes'[m] = cache_writes[m])]_vars
\* After its one write a mapper ran the loop of assign_tids with the cache file
\* gone, and wrote nothing.
C9_Witness ==
  /\ Linked /\ last.cache_written = 0
  /\ cache_writes[last.m] = 1
  /\ IsNone(cache_file)

\* The journals of the journal files.
AllJournals == {ParseRawJournal(f) : f \in JournalFiles}

\* C10: the indices a mapper loads from the artefact another mapper wrote equal
\* the indices that mapper built from the CSV, and both mappers give the same
\* assign_tids and assign_imdbs results on every journal.
C10_CacheRoundTrip ==
  \A a, b \in Mappers :
    (a # b /\ cache_writer = Some(a) /\ last.m = b /\ last.cache_read = 1) =>
      /\ title_year_mappings[b] = title_year_mappings[a]
      /\ tid_imdbs[b] = tid_imdbs[a]
      /\ title_year_mappings[a] =
           Some(GroupByTitleYear(ParseImdbMovies(Val(imdb_csv))))
      /\ tid_imdbs[a] = TidImdbs(ParseImdbMovies(Val(imdb_csv)))
      /\ \A journal \in AllJournals :
           /\ TidLoop(journal, Val(title_year_mappings[a]))
                = TidLoop(journal, Val(title_year_mappings[b]))
           /\ AssignImdbs(journal, tid_imdbs[a]) = AssignImdbs(journal, tid_imdbs[b])
\* The second mapper loaded an artefact of the first that holds a bucket of two
\* records.
C10_Witness ==
  /\ cache_writer = Some("m1") /\ last.m = "m2" /\ last.cache_read = 1
  /\ \E i \in DOMAIN Val(title_year_mappings["m2"]) :
       Len(Val(title_year_mappings["m2"])[i][2]) = 2
  /\ tid_imdbs["m2"] # <<>>

\* The last call built both indices from the reference CSV (a cache miss).
Built == last.cache_written = 1
\* What the loader returned to that call.
Loaded == ParseImdbMovies(Val(imdb_csv))
\* The places <<bucket, index>> of the grouped index g that hold record r.
Places(g, r) ==
  UNION {{<<b, k>> : k \in {x \in DOMAIN g[b][2] : g[b][2][x] = r}} : b \in DOMAIN g}

\* C11: in the grouped index built by _group_by_title_year every record the loader
\* returned is in exactly one bucket, the one keyed (title.lower(), year); the
\* buckets hold nothing else, none is empty, no key occurs twice, and the records
\* of a bucket are in the order the loader returned them.
C11_EveryRecordInItsOwnBucket ==
  Built =>
    /\ \A i \in DOMAIN Loaded :
         /\ Cardinality(Places(Mappings, Loaded[i])) = 1
         /\ \A p \in Places(Mappings, Loaded[i]) :
              Mappings[p[1]][1] = <<Lower(Loaded[i].title), Some(Loaded[i].year)>>
    /\ \A b \in DOMAIN Mappings :
         /\ Mappings[b][2] # <<>>
         /\ \A c \in DOMAIN Mappings : Mappings[b][1] = Mappings[c][1] => b = c
         /\ \A k \in DOMAIN Mappings[b][2] :
              \E i \in DOMAIN Loaded : Loaded[i] = Mappings[b][2][k]
         /\ \A k, l \in DOMAIN Mappings[b][2] :
              k < l => \E i, j \in DOMAIN Loaded :
                         /\ i < j
                         /\ Loaded[i] = Mappings[b][2][k]
                         /\ Loaded[j] = Mappings[b][2][l]
\* A mapper built an index with a bucket of two records whose titles differ as
\* written.
C11_Witness ==
  /\ Built
  /\ \E b \in DOMAIN Mappings :
       /\ Len(Mappings[b][2]) = 2
       /\ Mappings[b][2][1].title # Mappings[b][2][2].title

\* The index of the last record of the loader's list with tid k.
LastWithTid(k) ==
  CHOOSE i \in DOMAIN Loaded :
    /\ Loaded[i].tid = k
    /\ \A j \in DOMAIN Loaded : Loaded[j].tid = k => j <= i
NoDuplicateIds ==
  \A i, j \in DOMAIN Loaded : Loaded[i].tid = Loaded[j].tid => i = j

\* C12: in the identifier index built on a cache miss every key k maps to a record
\* of tid k, no key occurs twice and every id the loader returned is a key; the
\* record under k is the last one of that id in the loader's order, so without
\* duplicate ids the index has exactly the loader's records, one per key.
C12_IdentifierIndexOfDataset ==
  Built =>
    LET ti == tid_imdbs[last.m]
    IN /\ \A e \in DOMAIN ti :
            /\ ti[e][2].tid = ti[e][1]
            /\ \A f \in DOMAIN ti : ti[e][1] = ti[f][1] => e = f
            /\ \E i \in DOMAIN Loaded : Loaded[i].tid = ti[e][1]
       /\ \A i \in DOMAIN Loaded :
            /\ HasKey(ti, Loaded[i].tid)
            /\ DictGet(ti, Loaded[i].tid) = Some(Loaded[LastWithTid(Loaded[i].tid)])
       /\ NoDuplicateIds =>
            /\ Len(ti) = Len(Loaded)
            /\ \A i \in DOMAIN Loaded : DictGet(ti, Loaded[i].tid) = Some(Loaded[i])
\* A mapper built the identifier index from a CSV whose two rows share an id; the
\* record kept is the one of the first row, which the loader returned last.
C12_Witness ==
  /\ Built
  /\ Len(Val(imdb_csv)) = 2
  /\ Val(imdb_csv)[1].tconst = Val(imdb_csv)[2].tconst
  /\ Len(tid_imdbs[last.m]) = 1
  /\ tid_imdbs[last.m][1][2].title = Val(imdb_csv)[1].title

\* C13: self == other is True exactly when position, subnum and title of the two
\* entries all match, and then the two hashes are equal; two entries that differ
\* only in subnum are not equal.
C13_EqualIffAddressAndTitle ==
  (last.op = "__eq__" /\ IsJournalEntry(last.arg[2])) =>
    LET a == last.arg[1]
        b == last.arg[2]
    IN /\ (last.ret = Some("True")) <=>
            (a.position = b.position /\ a.subnum = b.subnum /\ a.title = b.title)
       /\ (last.ret = Some("True")) => JournalEntryHash(a) = JournalEntryHash(b)

\* C14: the tid property is _tid when _tid is present, else the tid of the
\* attached record when one is attached, else absent; with both an explicit id
\* and an attached record of another id it is the explicit id.
C14_ExplicitIdBeforeAttachedRecord ==
  last.op = "tid" =>
    LET j == last.arg[1]
    IN Val(last.ret) =
         IF ~IsNone(j._tid) THEN j._tid
         ELSE IF ~IsNone(j.imdb) THEN Some(Val(j.imdb).tid)
         ELSE None

\* C15: assign_imdbs raises nothing; an entry without attached record whose
\* resolved identifier is no key of the identifier index comes out unchanged,
\* imdb absent; an entry with a record attached comes out unchanged, with the
\* record it had.
C15_DanglingAndAttachedUnchanged ==
  last.op = "assign_imdbs" =>
    /\ Returned /\ IsNone(last.exc)
    /\ Len(Val(last.ret)) = Len(last.arg)
    /\ \A i \in DOMAIN last.arg :
         LET j == last.arg[i]
             out == Val(last.ret)[i]
         IN /\ (/\ IsNone(j.imdb) /\ ~IsNone(Tid(j))
                 /\ ~HasKey(tid_imdbs[last.m], Val(Tid(j)))) =>
                   (out = j /\ IsNone(out.imdb))
            /\ ~IsNone(j.imdb) => (out = j /\ out.imdb = j.imdb)
\* assign_imdbs ran over an entry whose id the non-empty index does not have and
\* over an entry whose attached record is not the one the index has for its id.
C15_Witness ==
  /\ last.op = "assign_imdbs" /\ Returned
  /\ tid_imdbs[last.m] # <<>>
  /\ \E i \in DOMAIN last.arg :
       /\ IsNone(last.arg[i].imdb) /\ ~IsNone(Tid(last.arg[i]))
       /\ ~HasKey(tid_imdbs[last.m], Val(Tid(last.arg[i])))
  /\ \E i \in DOMAIN last.arg :
       /\ ~IsNone(last.arg[i].imdb)
       /\ HasKey(tid_imdbs[last.m], Val(Tid(last.arg[i])))
       /\ DictGet(tid_imdbs[last.m], Val(Tid(last.arg[i]))) # last.arg[i].imdb

\* C16: a call of assign_tids on a journal whose entries all have a resolved
\* identifier (the empty journal too) returns, reads neither the cache artefact
\* nor the reference CSV, writes no cache file, and leaves the grouped index and
\* the identifier index of the mapper as they were.
C16_EarlyReturnTouchesNothing ==
  [][(last'.op = "assign_tids" /\ AllResolved(last'.arg)) =>
       /\ ~IsNone(last'.ret) /\ IsNone(last'.exc)
       /\ last'.csv_read = 0 /\ last'.cache_read = 0 /\ last'.cache_written = 0
       /\ csv_reads' = csv_reads
       /\ cache_reads' = cache_reads
       /\ cache_writes' = cache_writes
       /\ cache_file' = cache_file
       /\ imdb_csv' = imdb_csv
       /\ title_year_mappings' = title_year_mappings
       /\ tid_imdbs' = tid_imdbs]_vars
\* assign_tids returned a resolved, non-empty journal on a mapper without index,
\* with a readable CSV and no cache file: a load would have built and written.
C16_Witness ==
  /\ last.op = "assign_tids" /\ AllResolved(last.arg) /\ last.arg # <<>>
  /\ Returned
  /\ IsNone(title_year_mappings[last.m])
  /\ IsNone(cache_file) /\ ~IsNone(imdb_csv)
  /\ cache_writes[last.m] = 0

\* C17: the segment "The Matrix (1999) * [tt0133093] [bf:guessed]" parses to one
\* entry with title "The Matrix", year "1999", the star mark, the explicit
\* identifier "tt0133093" and the backfill "guessed".
C17_MarkAndBracketsExtracted ==
  (/\ last.op = "parse_single_entry"
   /\ last.arg[1] = TheMatrix \o Year1999 \o StarMark \o TidBracket \o BackfillBracket) =>
    Val(last.ret) =
      JournalEntry(last.arg[2], last.arg[3], TheMatrix, Some("star"),
                   Some(<<1, 9, 9, 9>>),
                   Some(<<"t", "t", "0", "1", "3", "3", "0", "9", "3">>),
                   Some(<<"g", "u", "e", "s", "s", "e", "d">>), None)

\* The lines of file f that are not empty after stripping, by index, and how
\* many of them come up to line i.
NonBlank(f) == {i \in DOMAIN f : \E k \in DOMAIN f[i] : ~IsSpace(f[i][k])}
Rank(f, i) == Cardinality({j \in NonBlank(f) : j <= i})

\* C18: parse_movie_log gives the entries of the k-th non-blank line position k,
\* whatever blank lines come before it; the positions of the output start at 1,
\* never decrease and leave out no number up to the count of non-blank lines; the
\* entries of one line have subnum 0, 1, 2, ... in the order of its segments.
C18_PositionsCountNonBlankLines ==
  last.op = "parse_movie_log" =>
    LET text == last.arg
        out == Val(last.ret)
        n == Cardinality(NonBlank(text))
    IN /\ \A e \in DOMAIN out : out[e].position \in 1..n
       /\ \A k \in 1..n : \E e \in DOMAIN out : out[e].position = k
       /\ out # <<>> => (out[1].position = 1 /\ out[1].subnum = 0)
       /\ \A e \in DOMAIN out :
            (e + 1) \in DOMAIN out =>
              \/ /\ out[e + 1].position = out[e].position
                 /\ out[e + 1].subnum = out[e].subnum + 1
              \/ /\ out[e + 1].position = out[e].position + 1
                 /\ out[e + 1].subnum = 0
       /\ \A i \in NonBlank(text) :
            LET segments == SplitSegments(Strip(text[i]))
            IN \A x \in DOMAIN segments :
                 \E e \in DOMAIN out :
                   /\ out[e].position = Rank(text, i)
                   /\ out[e].subnum = x - 1
                   /\ out[e].title = SegmentFields(segments[x]).title
       /\ Len(out) =
            Cardinality(UNION {{<<i, x>> : x \in DOMAIN SplitSegments(Strip(text[i]))} :
                                 i \in NonBlank(text)})
\* parse_movie_log read a file whose first line is blank and whose later lines
\* hold a line of two segments followed by another non-blank line.
C18_Witness ==
  /\ last.op = "parse_movie_log"
  /\ Len(last.arg) = 3
  /\ 1 \notin NonBlank(last.arg)
  /\ Len(SplitSegments(Strip(last.arg[2]))) = 2
  /\ Len(Val(last.ret)) = 3
  /\ Val(last.ret)[3].position = 2

\* C19: once a mapper holds a grouped index in memory, no step but the
\* construction of a new mapper changes it, and every later run of
\* _load_or_generate_title_year_mappings, called directly or through assign_tids
\* or load_journal, returns that index and neither reads nor writes the cache
\* file nor reads the CSV, whatever has become of the two files.
C19_NoInvalidation ==
  [][\A m \in Mappers :
       ~IsNone(title_year_mappings[m]) =>
         /\ last'.op # "__init__" =>
              (title_year_mappings'[m] = title_year_mappings[m]
                 /\ tid_imdbs'[m] = tid_imdbs[m])
         /\ (last'.m = m /\ LoadingStep) =>
              /\ last'.csv_read = 0 /\ last'.cache_read = 0
              /\ last'.cache_written = 0
              /\ csv_reads'[m] = csv_reads[m]
              /\ cache_reads'[m] = cache_reads[m]
              /\ cache_writes'[m] = cache_writes[m]
              /\ cache_file' = cache_file
              /\ last'.op = LoadOp =>
                   (last'.mappings = title_year_mappings[m] /\ IsNone(last'.exc))]_vars
\* A call returned the index in memory, read and wrote nothing, after the cache
\* file was deleted and the CSV rewritten to a dataset with another index.
C19_Witness ==
  /\ last.op = LoadOp
  /\ last.csv_read = 0 /\ last.cache_read = 0 /\ last.cache_written = 0
  /\ last.mappings = title_year_mappings[last.m]
  /\ ~IsNone(last.mappings)
  /\ IsNone(cache_file)
  /\ ~IsNone(imdb_csv)
  /\ Val(last.mappings) # GroupByTitleYear(Loaded)

\* tid with the explicit identifier before the attached record.
TidExplicitFirst(j) ==
  IF ~IsNone(j._tid) /\ Truthy(Val(j._tid)) THEN j._tid
  ELSE IF IsNone(j.imdb) THEN j._tid ELSE Some(Val(j.imdb).tid)
\* C20: in every journal load_journal returns, with the indices built from the
\* CSV or loaded from the artefact written from a CSV, an entry with a record
\* attached has that record's id as its explicit id, so that tid is the same
\* whichever of the two comes first.
C20_AttachedRecordHasExplicitId ==
  (last.op = "load_journal" /\ Returned) =>
    \A i \in DOMAIN Val(last.ret) :
      LET j == Val(last.ret)[i]
      IN ~IsNone(j.imdb) =>
           /\ j._tid = Some(Val(j.imdb).tid)
           /\ Tid(j) = j._tid
           /\ Tid(j) = TidExplicitFirst(j)
\* load_journal took the indices from the artefact and returned a journal in which
\* a record is attached to an entry whose id was written in the file and to an
\* entry whose id the lookup by title and year gave.
C20_Witness ==
  /\ last.op = "load_journal" /\ Returned /\ last.cache_read = 1
  /\ \E i, k \in DOMAIN Val(last.ret) :
       /\ ~IsNone(Val(last.ret)[i].imdb) /\ ~IsNone(last.arg[i]._tid)
       /\ ~IsNone(Val(last.ret)[k].imdb) /\ IsNone(last.arg[k]._tid)

\* The grouped index a call of _load_or_generate_title_year_mappings can leave in
\* a mapper that had none, with the files as they are.
IndexSources ==
  {None}
    \cup (IF IsNone(cache_file) THEN {}
          ELSE {Some(PickleLoad(Val(cache_file)).title_year_mappings)})
    \cup (IF IsNone(imdb_csv) THEN {} ELSE {Some(GroupByTitleYear(Loaded))})
\* C21: assign_tids and assign_imdbs leave the grouped index and the identifier
\* index a mapper holds as they are, and an index loaded during the call as it
\* was loaded (a lookup of an absent key adds no bucket); they leave the input
\* list and its entries as they are, an entry of the result that differs from
\* the input entry being a new value beside it; they leave an existing cache
\* file as it is.
C21_CallsLeaveIndicesInputAndCache ==
  [][last'.op \in {"assign_tids", "assign_imdbs"} =>
       /\ last'.arg_after = last'.arg
       /\ ~IsNone(title_year_mappings[last'.m]) =>
            /\ title_year_mappings'[last'.m] = title_year_mappings[last'.m]
            /\ tid_imdbs'[last'.m] = tid_imdbs[last'.m]
       /\ IsNone(title_year_mappings[last'.m]) =>
            title_year_mappings'[last'.m] \in IndexSources
       /\ last'.op = "assign_imdbs" =>
            /\ title_year_mappings' = title_year_mappings
            /\ tid_imdbs' = tid_imdbs
            /\ cache_file' = cache_file
       /\ ~IsNone(cache_file) => cache_file' = cache_file
       /\ ~IsNone(last'.ret) =>
            /\ Len(Val(last'.ret)) = Len(last'.arg)
            /\ \A i \in DOMAIN last'.arg :
                 Val(last'.ret)[i] # last'.arg[i] => last'.arg_after[i] = last'.arg[i]]_vars
\* assign_tids, with the cache file written, looked up a key the grouped index
\* does not have and gave an identifier to another entry of the same list.
C21_Witness ==
  /\ last.op = "assign_tids" /\ Returned
  /\ ~IsNone(cache_file)
  /\ \E i \in DOMAIN last.arg :
       IsNone(Tid(last.arg[i])) /\ Bucket(last.arg[i]) = <<>>
  /\ \E k \in DOMAIN last.arg : Val(last.ret)[k] # last.arg[k]
  /\ last.arg_after = last.arg

\* The records the grouped index of the last call's mapper holds under the title
\* of entry j, whatever their year.
SameTitle(j) ==
  {<<x, y>> \in UNION {{<<x, y>> : y \in DOMAIN Mappings[x][2]} : x \in DOMAIN Mappings} :
     Mappings[x][1][1] = Lower(j.title)}
\* C22: every key of a grouped index carries a year, be it the empty string, and
\* assign_tids and load_journal give no identifier to an entry that has neither
\* a year nor an identifier, whatever records the index holds under its title.
C22_NoYearNoIdentifier ==
  /\ \A m \in Mappers :
       ~IsNone(title_year_mappings[m]) =>
         \A k \in Keys(Val(title_year_mappings[m])) : ~IsNone(k[2])
  /\ (last.op \in {"assign_tids", "load_journal"} /\ Returned) =>
       \A i \in DOMAIN last.arg :
         (IsNone(last.arg[i].year) /\ IsNone(Tid(last.arg[i]))) =>
           /\ Val(last.ret)[i] = last.arg[i]
           /\ IsNone(Tid(Val(last.ret)[i]))
\* The loop of assign_tids ran over an entry without year and identifier while
\* the index held exactly one record with its title, under the empty year, and
\* the entry came out without identifier.
C22_Witness ==
  /\ Linked /\ Returned
  /\ \E i \in DOMAIN last.arg :
       /\ IsNone(last.arg[i].year) /\ IsNone(Tid(last.arg[i]))
       /\ Cardinality(SameTitle(last.arg[i])) = 1
       /\ HasKey(Mappings, <<Lower(last.arg[i].title), Some(<<>>)>>)
       /\ IsNone(Tid(Val(last.ret)[i]))

\* C23: nothing orders the steps of two mappers on one cache_file. Each mapper
\* can test for the file, read it, open it for writing and write it wherever the
\* other is; a mapper that found no file builds the indices and writes the
\* artefact although the other has written or is writing it, so that one miss is
\* written twice; the file holds no whole pickle from the opening for writing to
\* the end of the dump, and a mapper that found the file reads it as it is then,
\* which fails on such a file and leaves the mapper without index.
C23_NoOrderOfCheckWriteRead ==
  [][\A m \in Mappers :
       /\ pc[m] = "idle" => ENABLED CheckCache(m)
       /\ pc[m] = "load" => ENABLED ReadCache(m)
       /\ pc[m] = "open" => ENABLED OpenCacheForWriting(m)
       /\ pc[m] = "dump" => ENABLED DumpAndReturn(m)
       /\ (pc[m] = "idle" /\ pc'[m] # "idle") =>
            pc'[m] = (IF IsNone(cache_file) THEN "parse" ELSE "load")
       /\ (pc[m] = "open" /\ pc'[m] = "dump") => cache_file' = Some(Incomplete)
       /\ (pc[m] = "dump" /\ pc'[m] = "idle") =>
            /\ cache_writes'[m] = cache_writes[m] + 1
            /\ cache_file' =
                 Some(PickleDump(Val(title_year_mappings[m]), tid_imdbs[m]))
       /\ (pc[m] = "load" /\ pc'[m] = "idle" /\ cache_file = Some(Incomplete)) =>
            /\ ~IsNone(last'.exc)
            /\ Val(last'.exc).type \in {"EOFError", "UnpicklingError"}
            /\ IsNone(title_year_mappings'[m])
       /\ (pc[m] = "load" /\ pc'[m] = "idle" /\ cache_file # Some(Incomplete)) =>
            /\ IsNone(last'.exc)
            /\ title_year_mappings'[m] =
                 Some(GroupByTitleYear(ParseImdbMovies(Val(imdb_csv))))]_vars
\* Both mappers found no file, both read the CSV and both wrote the artefact: two
\* writes for one miss.
C23_Witness ==
  /\ \A m \in Mappers :
       /\ pc[m] = "idle"
       /\ csv_reads[m] = 1 /\ cache_writes[m] = 1 /\ cache_reads[m] = 0
  /\ ~IsNone(cache_file) /\ Val(cache_file) # Incomplete
  /\ Val(imdb_csv) # <<>>
\* The second mapper found the file while the first was between opening it and
\* the end of the dump, and its read of the artefact failed.
IncompleteRead ==
  /\ pc["m1"] = "dump"
  /\ cache_file = Some(Incomplete)
  /\ last.m = "m2" /\ ~IsNone(last.exc)
  /\ Val(last.exc).type \in {"EOFError", "UnpicklingError"}
  /\ IsNone(title_year_mappings["m2"])
====
